---- MODULE Spec2Model ----
(***************************************************************************)
(* Model of @zahoor/fastify-gracely (src/src/index.ts): runtime detection, *)
(* the plugin's wiring of its options into GracefulServer, the lifecycle   *)
(* listeners, the onReady hook and the frozen `gracely` status object.     *)
(*                                                                         *)
(* The lifecycle state machine itself (GracefulServer: setReady, isReady,  *)
(* the shutdown sequence, its timer, drain and cleanup hooks) is imported  *)
(* by index.ts and is not part of src/; it is modelled from sections 4.2   *)
(* and 4.4 of the specification.  Those definitions are grouped under     *)
(* "Lifecycle state machine" below.                                        *)
(***************************************************************************)
EXTENDS Integers, Sequences, FiniteSets, TLC

\* ------------------------------------------------------------------ bounds

\* How many times the readiness trigger (graceful.setReady) may be delivered.
MaxSetReady == 2
\* How many termination signals the process may receive.
MaxSignals == 2
\* How many requests may be in flight at once.
MaxConns == 2

\* ------------------------------------------------------------- characters

\* Text is a sequence of one-character strings.
UpperToLower ==
  ("D" :> "d") @@ ("O" :> "o") @@ ("C" :> "c") @@ ("K" :> "k") @@ ("E" :> "e") @@
  ("R" :> "r") @@ ("U" :> "u") @@ ("B" :> "b") @@ ("P" :> "p") @@ ("S" :> "s") @@
  ("N" :> "n") @@ ("T" :> "t") @@ ("A" :> "a") @@ ("I" :> "i") @@ ("L" :> "l")

toLowerCase(c) == IF c \in DOMAIN UpperToLower THEN UpperToLower[c] ELSE c

\* sub occurs in text at offset i (1-based), letters compared without case.
matchesAt(sub, text, i) ==
  /\ i + Len(sub) - 1 <= Len(text)
  /\ \A j \in 1..Len(sub) : toLowerCase(text[i + j - 1]) = toLowerCase(sub[j])

includesIgnoreCase(sub, text) == \E i \in 1..Len(text) : matchesAt(sub, text, i)

\* The alternatives of /docker|kubepods|containerd|libpod/i.
containerSignatures ==
  { <<"d","o","c","k","e","r">>,
    <<"k","u","b","e","p","o","d","s">>,
    <<"c","o","n","t","a","i","n","e","r","d">>,
    <<"l","i","b","p","o","d">> }

\* Faulty variant: the regular expression lacks the i flag.
containerRegexTest_CaseSensitive(content) ==
  \E sig \in containerSignatures :
    \E i \in 1..Len(content) :
      /\ i + Len(sig) - 1 <= Len(content)
      /\ \A j \in 1..Len(sig) : content[i + j - 1] = sig[j]

\* /docker|kubepods|containerd|libpod/i.test(content)
containerRegexTest(content) ==
  \E sig \in containerSignatures : includesIgnoreCase(sig, content)

\* ------------------------------------------------------------------ inputs

\* An environment variable: <<>> when unset, <<value>> when set.
Unset == <<>>
Truthy(v) == v # Unset /\ v[1] # ""

ProcessEnvs ==
  [ KUBERNETES_SERVICE_HOST : {Unset, <<"">>, <<"10.0.0.1">>},
    K8S : {Unset, <<"true">>, <<"false">>} ]

\* Contents the container-marker file may have.
FileContents ==
  { <<>>,
    <<"0",":",":","/">>,
    <<"/","d","o","c","k","e","r","/","a">>,
    <<"/","K","u","b","e","P","o","d","s">>,
    <<"c","o","n","t","a","i","n","e","r","d">>,
    <<"L","I","B","P","O","D">>,
    <<"d","o","c","k">> }

\* The file at containerEndpoint: unreadable (readFileSync throws) or its text.
Files ==
  {[readable |-> FALSE, content |-> <<>>]} \cup
  {[readable |-> TRUE, content |-> c] : c \in FileContents}

Runtimes == {"none", "auto", "local", "container", "kubernetes"}

\* FastifyGracelyOptions.  An optional value is <<>> when absent and <<value>>
\* when given; containerEndpoint is shown after its default has been applied.
\* The callback fields record typeof opts.x === 'function'.
Options ==
  [ runtime : Runtimes,
    timeout : {Unset, <<5000>>},
    livenessEndpoint : {Unset, <<"/healthz">>},
    readinessEndpoint : {Unset, <<"/readyz">>},
    containerEndpoint : {"", "/proc/1/cgroup"},
    ready : BOOLEAN, close : BOOLEAN, error : BOOLEAN, closing : BOOLEAN ]

\* Options that leave timeout and the probe paths at their defaults.
DefaultedOptions ==
  { o \in Options :
      o.timeout = Unset /\ o.livenessEndpoint = Unset /\ o.readinessEndpoint = Unset }

\* Destructuring defaults of plugin(): timeout, livenessEndpoint, readinessEndpoint.
DefaultTimeout == 10000
DefaultLivenessEndpoint == "/live"
DefaultReadinessEndpoint == "/ready"

orDefault(v, d) == IF v = Unset THEN d ELSE v[1]

\* ------------------------------------------------------- runtime detection

\* Faulty variant: the marker file is consulted before the environment variables.
detectGracelyRuntime_FileFirst(containerEndpoint, env, file) ==
  IF containerEndpoint # "" /\ file.readable /\ containerRegexTest(file.content)
  THEN [runtime |-> "container", envReads |-> 0, fileReads |-> 1, thrown |-> FALSE]
  ELSE IF Truthy(env.KUBERNETES_SERVICE_HOST) \/ env.K8S = <<"true">>
  THEN [runtime |-> "kubernetes", envReads |-> 2,
        fileReads |-> IF containerEndpoint # "" THEN 1 ELSE 0, thrown |-> FALSE]
  ELSE [runtime |-> "local", envReads |-> 2,
        fileReads |-> IF containerEndpoint # "" THEN 1 ELSE 0, thrown |-> FALSE]

\* Faulty variant: the file is read even when containerEndpoint is empty.
detectGracelyRuntime_NoEndpointGuard(containerEndpoint, env, file) ==
  IF Truthy(env.KUBERNETES_SERVICE_HOST)
  THEN [runtime |-> "kubernetes", envReads |-> 1, fileReads |-> 0, thrown |-> FALSE]
  ELSE IF env.K8S = <<"true">>
  THEN [runtime |-> "kubernetes", envReads |-> 2, fileReads |-> 0, thrown |-> FALSE]
  ELSE IF file.readable /\ containerRegexTest(file.content)
  THEN [runtime |-> "container", envReads |-> 2, fileReads |-> 1, thrown |-> FALSE]
  ELSE [runtime |-> "local", envReads |-> 2, fileReads |-> 1, thrown |-> FALSE]

\* Faulty variant: readFileSync is not wrapped in try/catch.
detectGracelyRuntime_NoCatch(containerEndpoint, env, file) ==
  IF Truthy(env.KUBERNETES_SERVICE_HOST)
  THEN [runtime |-> "kubernetes", envReads |-> 1, fileReads |-> 0, thrown |-> FALSE]
  ELSE IF env.K8S = <<"true">>
  THEN [runtime |-> "kubernetes", envReads |-> 2, fileReads |-> 0, thrown |-> FALSE]
  ELSE IF containerEndpoint # ""
  THEN IF ~file.readable
       THEN [runtime |-> "local", envReads |-> 2, fileReads |-> 1, thrown |-> TRUE]
       ELSE IF containerRegexTest(file.content)
       THEN [runtime |-> "container", envReads |-> 2, fileReads |-> 1, thrown |-> FALSE]
       ELSE [runtime |-> "local", envReads |-> 2, fileReads |-> 1, thrown |-> FALSE]
  ELSE [runtime |-> "local", envReads |-> 2, fileReads |-> 0, thrown |-> FALSE]

\* detectGracelyRuntime: the runtime it returns, the reads it performed and
\* whether an exception escaped it.  readFileSync throws on an unreadable file;
\* the catch block swallows that and detection falls through to 'local'.
detectGracelyRuntime(containerEndpoint, env, file) ==
  IF Truthy(env.KUBERNETES_SERVICE_HOST)
  THEN [runtime |-> "kubernetes", envReads |-> 1, fileReads |-> 0, thrown |-> FALSE]
  ELSE IF env.K8S = <<"true">>
  THEN [runtime |-> "kubernetes", envReads |-> 2, fileReads |-> 0, thrown |-> FALSE]
  ELSE IF containerEndpoint # ""
  THEN IF file.readable /\ containerRegexTest(file.content)
       THEN [runtime |-> "container", envReads |-> 2, fileReads |-> 1, thrown |-> FALSE]
       ELSE [runtime |-> "local", envReads |-> 2, fileReads |-> 1, thrown |-> FALSE]
  ELSE [runtime |-> "local", envReads |-> 2, fileReads |-> 0, thrown |-> FALSE]

\* Faulty variant: detection runs first and an explicit runtime overrides its result.
resolveEnv_AlwaysDetects(o, env, file) ==
  LET d == detectGracelyRuntime(o.containerEndpoint, env, file) IN
  IF o.runtime = "auto" THEN d ELSE [d EXCEPT !.runtime = o.runtime]

\* Faulty variant: the configured runtime is used as given, 'auto' included.
resolveEnv_NeverDetects(o, env, file) ==
  [runtime |-> o.runtime, envReads |-> 0, fileReads |-> 0, thrown |-> FALSE]

\* const env = runtime === 'auto' ? detectGracelyRuntime({containerEndpoint}) : runtime
resolveEnv(o, env, file) ==
  IF o.runtime = "auto"
  THEN detectGracelyRuntime(o.containerEndpoint, env, file)
  ELSE [runtime |-> o.runtime, envReads |-> 0, fileReads |-> 0, thrown |-> FALSE]

isKubernetes(env) == env = "kubernetes"

\* Faulty variant: healthCheck is left out, so the probes are always on.
GracefulServerOptions_HealthCheckAlways(o, env) ==
  [ timeout |-> orDefault(o.timeout, DefaultTimeout),
    syncClose |-> FALSE,
    closePromises |-> IF o.closing THEN <<"closing">> ELSE <<>>,
    healthCheck |-> TRUE,
    kubernetes |-> isKubernetes(env),
    livenessEndpoint |-> orDefault(o.livenessEndpoint, DefaultLivenessEndpoint),
    readinessEndpoint |-> orDefault(o.readinessEndpoint, DefaultReadinessEndpoint) ]

\* Faulty variant: the closing hook is not passed on as a cleanup hook.
GracefulServerOptions_NoClosePromises(o, env) ==
  [ timeout |-> orDefault(o.timeout, DefaultTimeout),
    syncClose |-> FALSE,
    closePromises |-> <<>>,
    healthCheck |-> isKubernetes(env),
    kubernetes |-> isKubernetes(env),
    livenessEndpoint |-> orDefault(o.livenessEndpoint, DefaultLivenessEndpoint),
    readinessEndpoint |-> orDefault(o.readinessEndpoint, DefaultReadinessEndpoint) ]

\* Faulty variant: the configured probe paths are not passed on.
GracefulServerOptions_DefaultPaths(o, env) ==
  [ timeout |-> orDefault(o.timeout, DefaultTimeout),
    syncClose |-> FALSE,
    closePromises |-> IF o.closing THEN <<"closing">> ELSE <<>>,
    healthCheck |-> isKubernetes(env),
    kubernetes |-> isKubernetes(env),
    livenessEndpoint |-> DefaultLivenessEndpoint,
    readinessEndpoint |-> DefaultReadinessEndpoint ]

\* The options object handed to GracefulServer(fastify.server, {...}).
GracefulServerOptions(o, env) ==
  [ timeout |-> orDefault(o.timeout, DefaultTimeout),
    syncClose |-> FALSE,
    closePromises |-> IF o.closing THEN <<"closing">> ELSE <<>>,
    healthCheck |-> isKubernetes(env),
    kubernetes |-> isKubernetes(env),
    livenessEndpoint |-> orDefault(o.livenessEndpoint, DefaultLivenessEndpoint),
    readinessEndpoint |-> orDefault(o.readinessEndpoint, DefaultReadinessEndpoint) ]

\* ------------------------------------------------------------------- state

VARIABLES
  opts,           \* the options the plugin was registered with
  procEnv,        \* process.env at registration
  file,           \* the container-marker file at registration
  gracely,        \* the frozen status object: [runtime |-> env]
  gsOptions,      \* the options GracefulServer was constructed with
  envReads,       \* environment variables inspected during registration
  fileReads,      \* readFileSync calls made during registration
  registrationError, \* the error plugin() threw, or none when it called done()
  state,          \* GracefulServer's lifecycle state
  timerArmed,     \* the shutdown timeout timer is running
  timersStarted,  \* how many times the shutdown timer was started
  cleanup,        \* the closing hook's promise: none | pending | resolved | rejected
  inflight,       \* in-flight requests on fastify.server
  emitted,        \* lifecycle events emitted so far, each <<event, error>>
  calls,          \* user callbacks and log lines invoked so far, in order
  setReadyCalls,  \* graceful.setReady() calls made so far
  signals         \* termination signals received so far

vars ==
  << opts, procEnv, file, gracely, gsOptions, envReads, fileReads,
     registrationError, state,
     timerArmed, timersStarted, cleanup, inflight, emitted, calls,
     setReadyCalls, signals >>

\* Fixed at plugin registration.
registration ==
  << opts, procEnv, file, gracely, gsOptions, envReads, fileReads, registrationError >>

NoError == "none"
TimeoutError == "timeout"
CleanupError == "cleanup"
ReadError == "read"
ConfigError == "config"

Call(fn, arg) == [fn |-> fn, arg |-> arg]

\* --------------------------------------------------------------- listeners

\* graceful.on(GracefulServer.READY, ...)
onREADY(o) ==
  (IF o.ready THEN <<Call("ready", NoError)>> ELSE <<>>)
    \o <<Call("log.info", "Server is ready ...")>>

\* Faulty variant: the listener invokes opts.ready instead of opts.close.
onSHUTTING_DOWN_CallsReady(o) ==
  (IF o.ready THEN <<Call("ready", NoError)>> ELSE <<>>)
    \o <<Call("log.info", "Server is closed !!!")>>

\* graceful.on(GracefulServer.SHUTTING_DOWN, ...)
onSHUTTING_DOWN(o) ==
  (IF o.close THEN <<Call("close", NoError)>> ELSE <<>>)
    \o <<Call("log.info", "Server is closed !!!")>>

\* Faulty variant: the listener calls opts.error() without the event's error.
onSHUTDOWN_DropsError(o, error) ==
  IF o.error THEN <<Call("error", NoError)>> ELSE <<>>

\* Faulty variant: the listener calls opts.error only when there is an error.
onSHUTDOWN_OnlyOnError(o, error) ==
  IF o.error /\ error # NoError THEN <<Call("error", error)>> ELSE <<>>

\* graceful.on(GracefulServer.SHUTDOWN, (error) => ...)
onSHUTDOWN(o, error) ==
  IF o.error THEN <<Call("error", error)>> ELSE <<>>

\* Faulty variant: the SHUTTING_DOWN and SHUTDOWN listeners are registered on
\* each other's event.
listeners_Swapped(o, event, error) ==
  CASE event = "READY" -> onREADY(o)
    [] event = "SHUTTING_DOWN" -> onSHUTDOWN(o, error)
    [] event = "SHUTDOWN" -> onSHUTTING_DOWN(o)
    [] OTHER -> <<>>

\* The calls the registered listeners make when `event` is emitted with `error`.
listeners(o, event, error) ==
  CASE event = "READY" -> onREADY(o)
    [] event = "SHUTTING_DOWN" -> onSHUTTING_DOWN(o)
    [] event = "SHUTDOWN" -> onSHUTDOWN(o, error)
    [] OTHER -> <<>>

\* ------------------------------------------------ Lifecycle state machine

\* GracefulServer(server, options): misconfiguration fails at construction.
constructorError(gs) == IF gs.timeout >= 0 THEN NoError ELSE ConfigError

currentState == state

isReady == state = "READY"

\* The closing hook has failed, or drain and the closing hook have both finished.
settled ==
  \/ cleanup = "rejected"
  \/ inflight = 0 /\ cleanup \in {"none", "resolved"}

\* Faulty variant: setReady sets READY from any state.
markReady_NoGuard ==
  /\ state' = "READY"
  /\ emitted' = Append(emitted, <<"READY", NoError>>)
  /\ calls' = calls \o listeners(opts, "READY", NoError)

\* markReady(): STARTING -> READY, firing the ready event; otherwise no effect.
markReady ==
  IF state = "STARTING"
  THEN /\ state' = "READY"
       /\ emitted' = Append(emitted, <<"READY", NoError>>)
       /\ calls' = calls \o listeners(opts, "READY", NoError)
  ELSE UNCHANGED <<state, emitted, calls>>

\* Faulty variant: a signal during SHUTTING_DOWN starts the sequence again.
beginShutdown_NoGuard ==
  IF state # "SHUTDOWN"
  THEN /\ state' = "SHUTTING_DOWN"
       /\ emitted' = Append(emitted, <<"SHUTTING_DOWN", NoError>>)
       /\ timerArmed' = TRUE
       /\ timersStarted' = timersStarted + 1
       /\ cleanup' = IF gsOptions.closePromises # <<>> THEN "pending" ELSE "none"
       /\ calls' = calls \o listeners(opts, "SHUTTING_DOWN", NoError)
                         \o [i \in 1..Len(gsOptions.closePromises) |->
                               Call(gsOptions.closePromises[i], NoError)]
  ELSE UNCHANGED <<state, emitted, timerArmed, timersStarted, cleanup, calls>>

\* beginShutdown(): READY|STARTING -> SHUTTING_DOWN; fires the shutting-down
\* event, starts the timeout timer and then the cleanup hooks; otherwise no effect.
beginShutdown ==
  IF state \in {"STARTING", "READY"}
  THEN /\ state' = "SHUTTING_DOWN"
       /\ emitted' = Append(emitted, <<"SHUTTING_DOWN", NoError>>)
       /\ timerArmed' = TRUE
       /\ timersStarted' = timersStarted + 1
       /\ cleanup' = IF gsOptions.closePromises # <<>> THEN "pending" ELSE "none"
       /\ calls' = calls \o listeners(opts, "SHUTTING_DOWN", NoError)
                         \o [i \in 1..Len(gsOptions.closePromises) |->
                               Call(gsOptions.closePromises[i], NoError)]
  ELSE UNCHANGED <<state, emitted, timerArmed, timersStarted, cleanup, calls>>

\* markShutdown(error): SHUTTING_DOWN -> SHUTDOWN, firing the shutdown event.
markShutdown(error) ==
  /\ state' = "SHUTDOWN"
  /\ timerArmed' = FALSE
  /\ emitted' = Append(emitted, <<"SHUTDOWN", error>>)
  /\ calls' = calls \o listeners(opts, "SHUTDOWN", error)

\* Faulty variant: a rejected closing hook is swallowed.
completionError_Swallowed == NoError

\* The error the sequence ends with when nothing is left to wait for.
completionError == IF cleanup = "rejected" THEN CleanupError ELSE NoError

\* Faulty variant: a forced shutdown reports no error.
timeoutError_None == NoError

\* The error the sequence ends with when the timer fires first.
timeoutError == TimeoutError

\* The probe routes GracefulServer serves: both when healthCheck is on, else none.
probeRoutes ==
  IF gsOptions.healthCheck
  THEN {gsOptions.livenessEndpoint, gsOptions.readinessEndpoint}
  ELSE {}

\* The answer of a GET on path: liveness succeeds until SHUTDOWN, readiness
\* only in READY; any other path is not a probe.
httpGet(path) ==
  IF path \notin probeRoutes THEN "no route"
  ELSE IF path = gsOptions.livenessEndpoint
  THEN IF state # "SHUTDOWN" THEN "success" ELSE "failure"
  ELSE IF isReady THEN "success" ELSE "failure"

\* ------------------------------------------------------------ status object

\* Faulty variant: `return graceful.isReady` (the function, always truthy).
gracelyReady_Always == TRUE

\* gracely.ready(): return graceful.isReady()
gracelyReady == isReady

\* Faulty variant: the status object is a plain, writable object.
gracelyFrozen_Writable == FALSE

\* const gracely = Object.freeze({...})
gracelyFrozen == TRUE

\* obj[key] = value: a frozen object keeps its value (the write is ignored, or
\* throws TypeError in strict mode).
assign(obj, frozen, key, value) ==
  IF frozen THEN obj ELSE [obj EXCEPT ![key] = value]

\* fastify.decorate('gracely', { getter: () => gracely })
fastifyGracely == gracely

\* fastify.decorateRequest('gracely', { getter: () => gracely })
requestGracely == gracely

\* ----------------------------------------------------------------- actions

\* State after plugin(fastify, opts, done) has run, for options, environment
\* and marker file drawn from O, E and F.  Nothing in plugin() catches, so an
\* exception from detection or from the GracefulServer constructor escapes it.
InitWith(O, E, F) ==
  \E o \in O, e \in E, f \in F :
    LET r == resolveEnv(o, e, f)
        gs == GracefulServerOptions(o, r.runtime) IN
    /\ opts = o
    /\ procEnv = e
    /\ file = f
    /\ gracely = [runtime |-> r.runtime]
    /\ gsOptions = gs
    /\ envReads = r.envReads
    /\ fileReads = r.fileReads
    /\ registrationError = IF r.thrown THEN ReadError ELSE constructorError(gs)
    /\ state = "STARTING"
    /\ timerArmed = FALSE
    /\ timersStarted = 0
    /\ cleanup = "none"
    /\ inflight = 0
    /\ emitted = <<>>
    /\ calls = <<>>
    /\ setReadyCalls = 0
    /\ signals = 0

Init == InitWith(DefaultedOptions, ProcessEnvs, Files)

\* plugin() ran to done(): the hook, the listeners and the server exist.
registered == registrationError = NoError

\* fastify.addHook('onReady', async () => { graceful.setReady() })
OnReadyHook ==
  /\ registered
  /\ setReadyCalls < MaxSetReady
  /\ setReadyCalls' = setReadyCalls + 1
  /\ markReady
  /\ UNCHANGED <<registration, timerArmed, timersStarted, cleanup, inflight, signals>>

\* A termination signal reaches the process.
Signal ==
  /\ registered
  /\ signals < MaxSignals
  /\ signals' = signals + 1
  /\ beginShutdown
  /\ UNCHANGED <<registration, inflight, setReadyCalls>>

\* A request is accepted by the server.
RequestArrives ==
  /\ registered
  /\ state = "READY"
  /\ inflight < MaxConns
  /\ inflight' = inflight + 1
  /\ UNCHANGED <<registration, state, timerArmed, timersStarted, cleanup,
                 emitted, calls, setReadyCalls, signals>>

\* An in-flight request finishes.
RequestDone ==
  /\ registered
  /\ inflight > 0
  /\ state # "SHUTDOWN"
  /\ inflight' = inflight - 1
  /\ UNCHANGED <<registration, state, timerArmed, timersStarted, cleanup,
                 emitted, calls, setReadyCalls, signals>>

\* The promise returned by the closing hook resolves.
ClosingResolves ==
  /\ registered
  /\ cleanup = "pending"
  /\ cleanup' = "resolved"
  /\ UNCHANGED <<registration, state, timerArmed, timersStarted, inflight,
                 emitted, calls, setReadyCalls, signals>>

\* The closing hook throws, or the promise it returned rejects.
ClosingRejects ==
  /\ registered
  /\ cleanup = "pending"
  /\ cleanup' = "rejected"
  /\ UNCHANGED <<registration, state, timerArmed, timersStarted, inflight,
                 emitted, calls, setReadyCalls, signals>>

\* Drain and cleanup are over before the timer fired: the sequence ends.
Complete ==
  /\ registered
  /\ state = "SHUTTING_DOWN"
  /\ settled
  /\ markShutdown(completionError)
  /\ UNCHANGED <<registration, timersStarted, cleanup, inflight,
                 setReadyCalls, signals>>

\* Faulty variant: the timer only preempts drain, never a pending closing hook.
Timeout_WaitsForCleanup ==
  /\ registered
  /\ state = "SHUTTING_DOWN"
  /\ timerArmed
  /\ ~settled
  /\ cleanup # "pending"
  /\ markShutdown(timeoutError)
  /\ inflight' = 0
  /\ UNCHANGED <<registration, timersStarted, cleanup, setReadyCalls, signals>>

\* The shutdown timer fires while drain or cleanup is still pending: the
\* remaining connections are closed by force and the sequence ends.
Timeout ==
  /\ registered
  /\ state = "SHUTTING_DOWN"
  /\ timerArmed
  /\ ~settled
  /\ markShutdown(timeoutError)
  /\ inflight' = 0
  /\ UNCHANGED <<registration, timersStarted, cleanup, setReadyCalls, signals>>

Next ==
  \/ OnReadyHook
  \/ Signal
  \/ RequestArrives
  \/ RequestDone
  \/ ClosingResolves
  \/ ClosingRejects
  \/ Complete
  \/ Timeout

Spec == Init /\ [][Next]_vars

\* Fairness: the event loop runs a due timer callback and a settled promise's
\* continuation.  The lifecycle never reads the environment or the marker file
\* after registration, so the fair specification fixes them to one value.
LiveInit ==
  /\ Init
  /\ procEnv = [KUBERNETES_SERVICE_HOST |-> Unset, K8S |-> <<"true">>]
  /\ file = [readable |-> FALSE, content |-> <<>>]

FairSpec == LiveInit /\ [][Next]_vars /\ WF_vars(Timeout) /\ WF_vars(Complete)

\* Detection and probe wiring, over more marker-file contents and over the
\* probe paths; the ready, close and error callbacks are configured.
DetectFileContents ==
  FileContents \cup
  { <<"1",":","/","D","o","C","k","E","r","/">>,
    <<"a","/","l","i","b","p","o","d","-","1">>,
    <<"c","o","n","t","a","i","n","e","r">>,
    <<"k","u","b","e","-","p","o","d","s">> }

DetectFiles ==
  {[readable |-> FALSE, content |-> <<>>]} \cup
  {[readable |-> TRUE, content |-> c] : c \in DetectFileContents}

DetectOptions ==
  { o \in Options :
      o.timeout = Unset /\ o.ready /\ o.close /\ o.error }

DetectInit == InitWith(DetectOptions, ProcessEnvs, DetectFiles)

DetectSpec == DetectInit /\ [][Next]_vars

\* Registration with values the option types exclude but a JavaScript caller
\* can pass: a runtime outside GracelyRuntime and a negative timeout.
MisconfigOptions ==
  [ runtime : Runtimes \cup {"bogus"},
    timeout : {Unset, <<5000>>, <<-1>>},
    livenessEndpoint : {Unset},
    readinessEndpoint : {Unset},
    containerEndpoint : {"/proc/1/cgroup"},
    ready : {TRUE}, close : {TRUE}, error : {TRUE}, closing : {TRUE} ]

MisconfigInit ==
  InitWith(MisconfigOptions,
           {[KUBERNETES_SERVICE_HOST |-> Unset, K8S |-> Unset]},
           {[readable |-> FALSE, content |-> <<>>]})

MisconfigSpec == MisconfigInit /\ [][Next]_vars

\* The environment of the running process changes after registration.
SetEnvironment ==
  /\ registered
  /\ \E e \in ProcessEnvs : e # procEnv /\ procEnv' = e
  /\ UNCHANGED <<opts, file, gracely, gsOptions, envReads, fileReads,
                 registrationError, state, timerArmed, timersStarted, cleanup,
                 inflight, emitted, calls, setReadyCalls, signals>>

\* The marker file is rewritten, removed or created after registration.
WriteMarkerFile ==
  /\ registered
  /\ \E f \in Files : f # file /\ file' = f
  /\ UNCHANGED <<opts, procEnv, gracely, gsOptions, envReads, fileReads,
                 registrationError, state, timerArmed, timersStarted, cleanup,
                 inflight, emitted, calls, setReadyCalls, signals>>

\* Application code assigns to the runtime property of the status object it
\* got from the instance or from a request.
AssignRuntime ==
  /\ registered
  /\ \E v \in Runtimes :
       gracely' = assign(fastifyGracely, gracelyFrozen, "runtime", v)
  /\ UNCHANGED <<opts, procEnv, file, gsOptions, envReads, fileReads,
                 registrationError, state, timerArmed, timersStarted, cleanup,
                 inflight, emitted, calls, setReadyCalls, signals>>

\* The lifecycle together with a changing environment and writes to the
\* status object, for every runtime setting with all hooks configured.
StatusOptions ==
  { o \in Options :
      /\ o.timeout = Unset
      /\ o.livenessEndpoint = Unset /\ o.readinessEndpoint = Unset
      /\ o.ready /\ o.close /\ o.error /\ o.closing }

StatusInit == InitWith(StatusOptions, ProcessEnvs, Files)

StatusNext ==
  \/ OnReadyHook
  \/ Signal
  \/ RequestArrives
  \/ RequestDone
  \/ ClosingResolves
  \/ ClosingRejects
  \/ Complete
  \/ Timeout
  \/ SetEnvironment
  \/ WriteMarkerFile
  \/ AssignRuntime

StatusSpec == StatusInit /\ [][StatusNext]_vars

\* ---------------------------------------------------------------- history

Last(s) == s[Len(s)]

\* The invocations of user callback fn so far.
CallsOf(fn) == SelectSeq(calls, LAMBDA c : c.fn = fn)

\* The emissions of lifecycle event ev so far.
EventsOf(ev) == SelectSeq(emitted, LAMBDA e : e[1] = ev)

ShutdownBegun == state \in {"SHUTTING_DOWN", "SHUTDOWN"}

\* ------------------------------------------------------------------ claims

\* The transitions the lifecycle may take: one step forward, READY skipped
\* only by a shutdown that starts in STARTING.
ForwardEdges ==
  { <<"STARTING", "READY">>, <<"STARTING", "SHUTTING_DOWN">>,
    <<"READY", "SHUTTING_DOWN">>, <<"SHUTTING_DOWN", "SHUTDOWN">> }

\* C1: under every interleaving of the onReady hook, signals, drain, cleanup
\* and the timer, each step leaves the lifecycle state alone or moves it along
\* STARTING -> READY -> SHUTTING_DOWN -> SHUTDOWN (READY skipped only from
\* STARTING); a setReady after shutdown has begun never restores READY and no
\* step leaves SHUTDOWN.
C1_StateMovesForward ==
  [][ /\ state' # state => <<state, state'>> \in ForwardEdges
      /\ ShutdownBegun => state' # "READY"
      /\ state = "SHUTDOWN" => state' = "SHUTDOWN" ]_vars

\* A setReady delivered after shutdown had begun in STARTING: READY was skipped.
C1_Witness ==
  /\ state = "SHUTDOWN"
  /\ setReadyCalls > 0
  /\ EventsOf("READY") = <<>>

\* C2: however many termination signals arrive, the shutdown sequence runs at
\* most once: the shutting-down event is emitted once, the timer is started
\* once, and close, closing and error are each invoked at most once.
C2_OneShutdownSequence ==
  /\ Len(EventsOf("SHUTTING_DOWN")) <= 1
  /\ Len(EventsOf("SHUTDOWN")) <= 1
  /\ timersStarted <= 1
  /\ Len(CallsOf("close")) <= 1
  /\ Len(CallsOf("closing")) <= 1
  /\ Len(CallsOf("error")) <= 1
  /\ ShutdownBegun =>
       /\ timersStarted = 1
       /\ Len(CallsOf("close")) = IF opts.close THEN 1 ELSE 0
       /\ Len(CallsOf("closing")) = IF opts.closing THEN 1 ELSE 0

\* A second signal arrived while the first sequence was still in progress.
C2_Witness ==
  /\ signals >= 2
  /\ state = "SHUTTING_DOWN"
  /\ opts.close /\ opts.closing /\ opts.error
  /\ cleanup = "pending"

\* C3: once shutdown has begun SHUTDOWN is eventually reached, even if the
\* connections never drain or the closing hook never settles; and a sequence
\* ended while drain or cleanup is still pending ends with the timeout error.
C3_TimeoutIsHardCeiling ==
  /\ (state = "SHUTTING_DOWN") ~> (state = "SHUTDOWN" /\ EventsOf("SHUTDOWN") # <<>>)
  /\ [][ (state = "SHUTTING_DOWN" /\ ~settled /\ state' = "SHUTDOWN")
           => Last(emitted') = <<"SHUTDOWN", TimeoutError>> ]_vars

\* Shutdown was forced while the closing hook was still pending.
C3_Witness ==
  /\ state = "SHUTDOWN"
  /\ cleanup = "pending"
  /\ Last(emitted) = <<"SHUTDOWN", TimeoutError>>

\* C4: gracely.ready() is true exactly in state READY, that is exactly when the
\* onReady hook has run and no shutdown trigger has arrived.
C4_ReadyIffStateReady ==
  /\ gracelyReady <=> state = "READY"
  /\ gracelyReady <=> (setReadyCalls > 0 /\ signals = 0)

\* Shutdown has just begun from READY, with drain and cleanup still pending.
C4_Witness ==
  /\ state = "SHUTTING_DOWN"
  /\ EventsOf("READY") # <<>>
  /\ inflight > 0
  /\ cleanup = "pending"
  /\ ~gracelyReady

\* C5: the ready callback has been invoked once when the server is READY or
\* went through READY, never in STARTING, never more than once, and only by the
\* step STARTING -> READY: a repeated or late readiness signal does not fire it.
C5_ReadyCallbackOnce ==
  /\ [](opts.ready =>
          /\ Len(CallsOf("ready")) = Len(EventsOf("READY"))
          /\ Len(CallsOf("ready")) <= 1
          /\ state = "STARTING" => CallsOf("ready") = <<>>
          /\ state = "READY" => Len(CallsOf("ready")) = 1)
  /\ [][ CallsOf("ready")' # CallsOf("ready")
           => state = "STARTING" /\ state' = "READY" ]_vars

\* The readiness signal was delivered twice and the callback ran once.
C5_Witness ==
  /\ opts.ready
  /\ setReadyCalls >= 2
  /\ state = "READY"
  /\ Len(CallsOf("ready")) = 1

\* C6 as stated: every finished shutdown is either clean (no error) or forced
\* (timeout error).
C6_TwoOutcomesOnly ==
  state = "SHUTDOWN" => Last(emitted)[2] \in {NoError, TimeoutError}

\* C6 amended: a shutdown ends exactly once; it ends clean when drain is over
\* and the closing hook has resolved (or is absent), with the cleanup failure
\* when the closing hook has rejected, and with the timeout error when the
\* timer fires while drain or cleanup is still pending.
C6_OutcomeDecidedByRace ==
  /\ [](Len(EventsOf("SHUTDOWN")) = IF state = "SHUTDOWN" THEN 1 ELSE 0)
  /\ [][ (state = "SHUTTING_DOWN" /\ state' = "SHUTDOWN") =>
           /\ emitted' = Append(emitted, Last(emitted'))
           /\ Last(emitted')[1] = "SHUTDOWN"
           /\ (inflight = 0 /\ cleanup \in {"none", "resolved"})
                => Last(emitted')[2] = NoError
           /\ cleanup = "rejected" => Last(emitted')[2] = CleanupError
           /\ ~settled => Last(emitted')[2] = TimeoutError ]_vars

\* A clean shutdown: the closing hook ran and resolved, and drain was over,
\* before the timer fired.
C6_Witness ==
  /\ state = "SHUTDOWN"
  /\ Last(emitted) = <<"SHUTDOWN", NoError>>
  /\ cleanup = "resolved"
  /\ timersStarted = 1

\* C7: a shutdown that ended with an error, timeout or cleanup failure, has
\* invoked the error callback exactly once, with that error.
C7_ErrorCallbackGetsError ==
  (opts.error /\ state = "SHUTDOWN" /\ Last(emitted)[2] # NoError)
    => CallsOf("error") = <<Call("error", Last(emitted)[2])>>

\* A shutdown that ended with the cleanup failure, error callback configured.
C7_Witness ==
  /\ opts.error
  /\ state = "SHUTDOWN"
  /\ Last(emitted) = <<"SHUTDOWN", CleanupError>>

\* C8: when the closing hook has rejected during shutdown, the sequence ends
\* with the cleanup failure, which is not the timeout error, and the error
\* callback receives it.
C8_CleanupFailurePropagated ==
  [][ (state = "SHUTTING_DOWN" /\ cleanup = "rejected" /\ state' = "SHUTDOWN") =>
        /\ Last(emitted') = <<"SHUTDOWN", CleanupError>>
        /\ Last(emitted')[2] # TimeoutError
        /\ opts.error => Last(calls') = Call("error", CleanupError) ]_vars

\* The closing hook rejected while requests were still in flight.
C8_Witness ==
  /\ state = "SHUTDOWN"
  /\ cleanup = "rejected"
  /\ opts.error
  /\ Last(calls) = Call("error", CleanupError)
  /\ EventsOf("READY") # <<>>

\* C9: with runtime 'none' no probe route is registered, neither environment
\* variables nor the marker file are inspected, no lifecycle hook runs, and
\* gracely.ready() keeps the value it had at registration.
C9_NoneDisablesEverything ==
  opts.runtime = "none" =>
    /\ ~gsOptions.healthCheck
    /\ envReads = 0
    /\ fileReads = 0
    /\ setReadyCalls = 0
    /\ CallsOf("ready") = <<>>
    /\ CallsOf("close") = <<>>
    /\ CallsOf("closing") = <<>>
    /\ CallsOf("error") = <<>>
    /\ gracelyReady = FALSE

\* C10: under runtime 'auto', a non-empty KUBERNETES_SERVICE_HOST or
\* K8S = 'true' gives runtime kubernetes whatever containerEndpoint and the
\* marker file hold, and the file is not read.
C10_KubernetesEnvWins ==
  ( /\ opts.runtime = "auto"
    /\ \/ Truthy(procEnv.KUBERNETES_SERVICE_HOST)
       \/ procEnv.K8S = <<"true">> )
    => /\ gracely.runtime = "kubernetes"
       /\ fileReads = 0

\* K8S = 'true' while a readable marker file carries a container signature.
C10_Witness ==
  /\ opts.runtime = "auto"
  /\ procEnv.K8S = <<"true">>
  /\ ~Truthy(procEnv.KUBERNETES_SERVICE_HOST)
  /\ opts.containerEndpoint # ""
  /\ file.readable /\ containerRegexTest(file.content)
  /\ gracely.runtime = "kubernetes"

\* Neither Kubernetes variable makes detection return before the file branch.
NoKubernetesEnv ==
  ~Truthy(procEnv.KUBERNETES_SERVICE_HOST) /\ procEnv.K8S # <<"true">>

\* The text with every letter in lower case.
LowerText(t) == [i \in 1..Len(t) |-> toLowerCase(t[i])]

\* The text holds docker, kubepods, containerd or libpod, in any letter case.
HasKnownSignature(t) ==
  \E sig \in { <<"d","o","c","k","e","r">>, <<"k","u","b","e","p","o","d","s">>,
               <<"c","o","n","t","a","i","n","e","r","d">>,
               <<"l","i","b","p","o","d">> } :
    \E i \in 1..Len(t) :
      /\ i + Len(sig) - 1 <= Len(t)
      /\ SubSeq(LowerText(t), i, i + Len(sig) - 1) = sig

\* C11: under runtime 'auto' with neither Kubernetes variable set and a
\* readable marker file, the runtime is container when the content holds a
\* known signature in any letter case, and local when it holds none.
C11_SignatureGivesContainer ==
  ( /\ opts.runtime = "auto"
    /\ NoKubernetesEnv
    /\ opts.containerEndpoint # ""
    /\ file.readable )
    => /\ fileReads = 1
       /\ gracely.runtime =
            IF HasKnownSignature(file.content) THEN "container" ELSE "local"

\* A mixed-case signature inside a longer line.
C11_Witness ==
  /\ opts.runtime = "auto"
  /\ NoKubernetesEnv
  /\ opts.containerEndpoint # ""
  /\ file.readable
  /\ file.content = <<"1",":","/","D","o","C","k","E","r","/">>
  /\ gracely.runtime = "container"

\* C12: under runtime 'auto' with neither Kubernetes variable set, an empty
\* containerEndpoint gives runtime local and no file read is attempted.
C12_EmptyEndpointSkipsFile ==
  ( /\ opts.runtime = "auto"
    /\ NoKubernetesEnv
    /\ opts.containerEndpoint = "" )
    => /\ gracely.runtime = "local"
       /\ fileReads = 0

\* An empty containerEndpoint while a readable file carries a signature.
C12_Witness ==
  /\ opts.runtime = "auto"
  /\ NoKubernetesEnv
  /\ opts.containerEndpoint = ""
  /\ file.readable /\ HasKnownSignature(file.content)
  /\ gracely.runtime = "local"

\* C13: under runtime 'auto' with neither Kubernetes variable set, a failed read
\* of the marker file gives runtime local, registration completes without an
\* error, and no lifecycle event or callback ever carries the read error.
C13_ReadFailureRecovered ==
  ( /\ opts.runtime = "auto"
    /\ NoKubernetesEnv
    /\ opts.containerEndpoint # ""
    /\ ~file.readable )
    => /\ fileReads = 1
       /\ gracely.runtime = "local"
       /\ registrationError = NoError
       /\ \A i \in 1..Len(calls) : calls[i].arg # ReadError
       /\ \A i \in 1..Len(emitted) : emitted[i][2] # ReadError

\* After a failed read the server became ready and then shut down.
C13_Witness ==
  /\ opts.runtime = "auto"
  /\ NoKubernetesEnv
  /\ opts.containerEndpoint # ""
  /\ ~file.readable
  /\ gracely.runtime = "local"
  /\ CallsOf("ready") # <<>>
  /\ CallsOf("error") # <<>>

\* C14: an explicitly configured runtime (none, local, container, kubernetes)
\* is the resolved runtime whatever the environment variables and the marker
\* file hold, neither is read at registration, and no later step reads them.
C14_ExplicitRuntimeWins ==
  /\ [](opts.runtime \in Runtimes \ {"auto"} =>
          /\ gracely.runtime = opts.runtime
          /\ envReads = 0
          /\ fileReads = 0)
  /\ [][envReads' = envReads /\ fileReads' = fileReads]_vars

\* Runtime 'local' configured in a Kubernetes environment with a container
\* marker file, and the server has become ready.
C14_Witness ==
  /\ opts.runtime = "local"
  /\ procEnv.K8S = <<"true">>
  /\ Truthy(procEnv.KUBERNETES_SERVICE_HOST)
  /\ opts.containerEndpoint # ""
  /\ file.readable /\ HasKnownSignature(file.content)
  /\ gracely.runtime = "local"
  /\ state = "READY"

\* The probe paths as configured, defaults applied.
ConfiguredLivenessPath == orDefault(opts.livenessEndpoint, "/live")
ConfiguredReadinessPath == orDefault(opts.readinessEndpoint, "/ready")

\* C15: probe routes exist exactly when the resolved runtime is kubernetes;
\* for local, container and none neither configured path is a route; with
\* default options the routes are /live and /ready.
C15_ProbesIffKubernetes ==
  /\ probeRoutes # {} <=> gracely.runtime = "kubernetes"
  /\ gracely.runtime \in {"local", "container", "none"} =>
       /\ httpGet(ConfiguredLivenessPath) = "no route"
       /\ httpGet(ConfiguredReadinessPath) = "no route"
  /\ gracely.runtime = "kubernetes" =>
       probeRoutes = {ConfiguredLivenessPath, ConfiguredReadinessPath}
  /\ ( /\ gracely.runtime = "kubernetes"
       /\ opts.livenessEndpoint = Unset
       /\ opts.readinessEndpoint = Unset ) => probeRoutes = {"/live", "/ready"}

\* K8S = 'true' under runtime 'auto' with default paths: both routes exist.
C15_Witness ==
  /\ opts.runtime = "auto"
  /\ procEnv.K8S = <<"true">>
  /\ opts.livenessEndpoint = Unset /\ opts.readinessEndpoint = Unset
  /\ probeRoutes = {"/live", "/ready"}
  /\ httpGet("/ready") = "success"

\* C16: in kubernetes mode a GET on the configured liveness path succeeds in
\* STARTING, READY and SHUTTING_DOWN, drain and cleanup included.
C16_LivenessUntilShutdown ==
  (gracely.runtime = "kubernetes" /\ registered /\ state # "SHUTDOWN")
    => httpGet(ConfiguredLivenessPath) = "success"

\* Shutting down with a request in flight and the closing hook pending, on a
\* configured liveness path.
C16_Witness ==
  /\ gracely.runtime = "kubernetes"
  /\ opts.livenessEndpoint = <<"/healthz">>
  /\ state = "SHUTTING_DOWN"
  /\ inflight > 0
  /\ cleanup = "pending"
  /\ httpGet("/healthz") = "success"
  /\ httpGet(ConfiguredReadinessPath) = "failure"

\* The options hold a runtime outside GracelyRuntime or a negative timeout.
Misconfigured ==
  \/ opts.runtime \notin Runtimes
  \/ opts.timeout # Unset /\ opts.timeout[1] < 0

\* C17: registering with an invalid timeout or an invalid runtime ends in an
\* error at construction, so such a server never becomes READY.
C17_MisconfigurationFailsFast ==
  Misconfigured => (registrationError # NoError /\ state = "STARTING")

\* C18: a configured closing function is the one cleanup hook: it is invoked
\* once when shutdown begins, never again, and SHUTDOWN is not reached while
\* its promise is pending unless by the timeout; without a closing function no
\* hook is invoked or awaited.
C18_ClosingIsTheCleanupHook ==
  /\ [](opts.closing =>
          /\ Len(gsOptions.closePromises) = 1
          /\ Len(CallsOf("closing")) = IF ShutdownBegun THEN 1 ELSE 0
          /\ ShutdownBegun <=> cleanup # "none")
  /\ [](~opts.closing =>
          /\ gsOptions.closePromises = <<>>
          /\ CallsOf("closing") = <<>>
          /\ cleanup = "none")
  /\ [][ (state = "SHUTTING_DOWN" /\ cleanup = "pending" /\ state' = "SHUTDOWN")
           => Last(emitted') = <<"SHUTDOWN", TimeoutError>> ]_vars

\* The closing hook was invoked once and resolved, and shutdown ended clean.
C18_Witness ==
  /\ opts.closing
  /\ state = "SHUTDOWN"
  /\ cleanup = "resolved"
  /\ Last(emitted) = <<"SHUTDOWN", NoError>>
  /\ Len(CallsOf("closing")) = 1

\* C19: the step into SHUTTING_DOWN invokes the configured close callback
\* first, before the closing hook starts and with drain untouched; every
\* closing and error invocation has a close invocation before it.
C19_CloseComesFirst ==
  /\ [](opts.close =>
          /\ ShutdownBegun <=> CallsOf("close") # <<>>
          /\ \A i \in 1..Len(calls) :
               calls[i].fn \in {"closing", "error"}
                 => \E j \in 1..(i - 1) : calls[j].fn = "close")
  /\ [][ (opts.close /\ ~ShutdownBegun /\ state' = "SHUTTING_DOWN") =>
           /\ Len(calls') > Len(calls)
           /\ calls'[Len(calls) + 1] = Call("close", NoError)
           /\ inflight' = inflight ]_vars

\* close, then the closing hook, then error, with requests in flight when
\* shutdown began.
C19_Witness ==
  /\ opts.close /\ opts.closing /\ opts.error
  /\ state = "SHUTDOWN"
  /\ Len(CallsOf("close")) = 1
  /\ Len(CallsOf("error")) = 1
  /\ Last(emitted) = <<"SHUTDOWN", TimeoutError>>
  /\ EventsOf("READY") # <<>>

\* C20: a configured error callback has been invoked exactly once, with the
\* terminal event's value, once SHUTDOWN is reached, clean shutdowns included,
\* and not at all before.
C20_ErrorCallbackOnEveryShutdown ==
  opts.error =>
    /\ state = "SHUTDOWN" => CallsOf("error") = <<Call("error", Last(emitted)[2])>>
    /\ state # "SHUTDOWN" => CallsOf("error") = <<>>

\* A clean shutdown: the error callback received no error.
C20_Witness ==
  /\ opts.error
  /\ state = "SHUTDOWN"
  /\ Last(emitted) = <<"SHUTDOWN", NoError>>
  /\ CallsOf("error") = <<Call("error", NoError)>>

\* C21: the instance and the request expose the same status object, and no
\* step (lifecycle transition, change of environment variables or marker
\* file, write to the object) changes its runtime after registration: an
\* explicit runtime stays the configured one, and nothing is detected again.
C21_StatusObjectImmutable ==
  /\ [](fastifyGracely = requestGracely)
  /\ [](opts.runtime # "auto" => fastifyGracely.runtime = opts.runtime)
  /\ [][ /\ fastifyGracely' = fastifyGracely
         /\ requestGracely' = requestGracely
         /\ envReads' = envReads
         /\ fileReads' = fileReads ]_vars

\* Shutdown has completed after the server was ready, and the environment now
\* would resolve to another runtime than the one the status object holds.
C21_Witness ==
  /\ opts.runtime = "auto"
  /\ state = "SHUTDOWN"
  /\ EventsOf("READY") # <<>>
  /\ resolveEnv(opts, procEnv, file).runtime # requestGracely.runtime
  /\ requestGracely.runtime = "local"
  /\ ~gracelyReady

\* C22: the runtime of the status object is never 'auto': it is one of none,
\* local, container, kubernetes for every configured runtime, every
\* environment and every marker file, and with runtime 'auto' it is one of the
\* three values detection returns.
C22_ResolvedRuntimeNeverAuto ==
  /\ fastifyGracely.runtime # "auto"
  /\ fastifyGracely.runtime \in {"none", "local", "container", "kubernetes"}
  /\ opts.runtime = "auto" =>
       /\ fastifyGracely.runtime \in {"local", "container", "kubernetes"}
       /\ envReads > 0

\* Runtime 'auto' was configured, detection resolved it to container, and the
\* server is ready.
C22_Witness ==
  /\ opts.runtime = "auto"
  /\ registered
  /\ fastifyGracely.runtime = "container"
  /\ gracelyReady

====
